---- MODULE Spec2Model ----
(***************************************************************************)
(* Document synchronization and mutation engine of the editor: the Sync    *)
(* Controller of App.tsx (text <-> tree, debounced parse, suppression      *)
(* flag), the five mutation handlers and the lodash / JSON / js-yaml        *)
(* operations they call.                                                   *)
(***************************************************************************)
EXTENDS Integers, Sequences, FiniteSets, TLC

(***************************************************************************)
(* JavaScript values.  Every value is a record of the same shape:          *)
(*   t  : the kind ("obj", "arr", "str", "num", "bool", "null", "undef",   *)
(*        "bigint", or "cyc": a reference from an array element back to    *)
(*        the array that holds it)                                         *)
(*   ks : own string-keyed properties, in enumeration order                *)
(*   ch : their values                                                     *)
(*   el : the elements of an array (a hole is the value undefined)         *)
(*   v  : the text of a scalar                                             *)
(***************************************************************************)
Node(t, ks, ch, el, v) == [t |-> t, ks |-> ks, ch |-> ch, el |-> el, v |-> v]

Obj(ks, ch) == Node("obj", ks, ch, <<>>, "")

Arr(el) == Node("arr", <<>>, <<>>, el, "")

Str(s) == Node("str", <<>>, <<>>, <<>>, s)

Num(s) == Node("num", <<>>, <<>>, <<>>, s)

Bool(s) == Node("bool", <<>>, <<>>, <<>>, s)

Null == Node("null", <<>>, <<>>, <<>>, "")

Undef == Node("undef", <<>>, <<>>, <<>>, "")

BigInt == Node("bigint", <<>>, <<>>, <<>>, "1")

Cyc == Node("cyc", <<>>, <<>>, <<>>, "")

EmptyObj == Obj(<<>>, <<>>)

\* Decimal numerals: the array indices and numbers of the model.
Numerals == <<"0", "1", "2", "3", "4", "5", "6">>

\* lodash isIndex / an integer-like property name
IsIndex(s) == \E i \in DOMAIN Numerals : Numerals[i] = s

IndexOf(s) == (CHOOSE i \in DOMAIN Numerals : Numerals[i] = s) - 1

NumeralOf(n) == Numerals[n + 1]

\* The characters of a string value; strings not listed are one character.
StrChars(s) ==
  IF s = "" THEN <<>>
  ELSE IF s = "xy" THEN <<"x", "y">>
  ELSE <<s>>

\* typeof x === 'object' && x !== null (lodash isObject for these values)
IsObject(n) == n.t \in {"obj", "arr"}

\* JavaScript truthiness, as in `if (!parsedSpec)`
Truthy(n) ==
  CASE n.t \in {"null", "undef"} -> FALSE
    [] n.t = "bool" -> n.v = "true"
    [] n.t = "num" -> n.v # "0"
    [] n.t = "str" -> n.v # ""
    [] n.t = "bigint" -> n.v # "0"
    [] OTHER -> TRUE

PosOf(ks, k) == CHOOSE i \in DOMAIN ks : ks[i] = k

HasKey(ks, k) == \E i \in DOMAIN ks : ks[i] = k

SeqRemoveAt(s, i) == SubSeq(s, 1, i - 1) \o SubSeq(s, i + 1, Len(s))

SeqInsertAt(s, i, x) == SubSeq(s, 1, i - 1) \o <<x>> \o SubSeq(s, i, Len(s))

\* object[key]
GetProp(n, k) ==
  CASE n.t = "obj" -> IF HasKey(n.ks, k) THEN n.ch[PosOf(n.ks, k)] ELSE Undef
    [] n.t = "arr" ->
         IF IsIndex(k)
         THEN IF IndexOf(k) < Len(n.el) THEN n.el[IndexOf(k) + 1] ELSE Undef
         ELSE IF HasKey(n.ks, k) THEN n.ch[PosOf(n.ks, k)] ELSE Undef
    [] n.t = "str" ->
         IF IsIndex(k) /\ IndexOf(k) < Len(StrChars(n.v))
         THEN Str(StrChars(n.v)[IndexOf(k) + 1]) ELSE Undef
    [] OTHER -> Undef

\* key in object
HasProp(n, k) ==
  CASE n.t = "obj" -> HasKey(n.ks, k)
    [] n.t = "arr" -> IF IsIndex(k) THEN IndexOf(k) < Len(n.el) ELSE HasKey(n.ks, k)
    [] OTHER -> FALSE

\* Where a new property name goes in the enumeration order: integer-like
\* names ascending before all others, other names in insertion order.
InsertPos(ks, k) ==
  IF IsIndex(k)
  THEN 1 + Cardinality({i \in DOMAIN ks : IsIndex(ks[i]) /\ IndexOf(ks[i]) < IndexOf(k)})
  ELSE Len(ks) + 1

PadTo(el, n) == el \o [i \in 1..(n - Len(el)) |-> Undef]

\* object[key] = value
AssignProp(n, k, val) ==
  CASE n.t = "obj" ->
         IF HasKey(n.ks, k)
         THEN [n EXCEPT !.ch[PosOf(n.ks, k)] = val]
         ELSE [n EXCEPT !.ks = SeqInsertAt(n.ks, InsertPos(n.ks, k), k),
                        !.ch = SeqInsertAt(n.ch, InsertPos(n.ks, k), val)]
    [] n.t = "arr" ->
         IF IsIndex(k)
         THEN IF IndexOf(k) < Len(n.el)
              THEN [n EXCEPT !.el[IndexOf(k) + 1] = val]
              ELSE [n EXCEPT !.el = Append(PadTo(n.el, IndexOf(k)), val)]
         ELSE IF HasKey(n.ks, k)
              THEN [n EXCEPT !.ch[PosOf(n.ks, k)] = val]
              ELSE [n EXCEPT !.ks = Append(n.ks, k), !.ch = Append(n.ch, val)]
    [] OTHER -> n

\* delete object[key]
DeleteProp(n, k) ==
  CASE n.t = "obj" ->
         IF HasKey(n.ks, k)
         THEN [n EXCEPT !.ks = SeqRemoveAt(n.ks, PosOf(n.ks, k)),
                        !.ch = SeqRemoveAt(n.ch, PosOf(n.ks, k))]
         ELSE n
    [] n.t = "arr" ->
         IF IsIndex(k)
         THEN IF IndexOf(k) < Len(n.el) THEN [n EXCEPT !.el[IndexOf(k) + 1] = Undef] ELSE n
         ELSE IF HasKey(n.ks, k)
              THEN [n EXCEPT !.ks = SeqRemoveAt(n.ks, PosOf(n.ks, k)),
                             !.ch = SeqRemoveAt(n.ch, PosOf(n.ks, k))]
              ELSE n
    [] OTHER -> n

(***************************************************************************)
(* lodash get / set / cloneDeep                                            *)
(***************************************************************************)
RECURSIVE BaseGet(_, _)
\* The loop of lodash baseGet.  An element that refers back to its array
\* yields that array.
BaseGet(n, path) ==
  IF path = <<>> THEN n
  ELSE IF n.t \in {"null", "undef"} THEN Undef
  ELSE LET c == GetProp(n, Head(path))
       IN IF c.t = "cyc" THEN BaseGet(n, Tail(path)) ELSE BaseGet(c, Tail(path))

\* get(object, path): undefined for the empty path and for an absent node
Get(object, path) == IF path = <<>> THEN Undef ELSE BaseGet(object, path)

\* get(object, path, defaultValue)
GetOr(object, path, defaultValue) ==
  IF Get(object, path).t = "undef" THEN defaultValue ELSE Get(object, path)

RECURSIVE BaseSet(_, _, _)
\* The loop of lodash baseSet on an object and a non-empty path: an
\* intermediate that is not an object is replaced by a new array when the
\* next step is an index, by a new plain object otherwise.
BaseSet(n, path, val) ==
  IF Len(path) = 1 THEN AssignProp(n, Head(path), val)
  ELSE LET objValue == GetProp(n, Head(path))
           child == IF IsObject(objValue) THEN objValue
                    ELSE IF IsIndex(path[2]) THEN Arr(<<>>) ELSE EmptyObj
       IN IF objValue.t = "cyc" THEN BaseSet(n, Tail(path), val)
          ELSE AssignProp(n, Head(path), BaseSet(child, Tail(path), val))

\* set(object, path, value)
Set(object, path, val) ==
  IF ~IsObject(object) \/ path = <<>> THEN object ELSE BaseSet(object, path, val)

RECURSIVE ReplaceAt(_, _, _)
\* An in-place change of the object that get(n, path) returned: the object
\* at that place is now `new`.
ReplaceAt(n, path, new) ==
  IF path = <<>> THEN new
  ELSE LET c == GetProp(n, Head(path))
       IN IF c.t = "cyc" THEN ReplaceAt(n, Tail(path), new)
          ELSE AssignProp(n, Head(path), ReplaceAt(c, Tail(path), new))

RECURSIVE CloneDeep(_)
\* cloneDeep: a structural copy; the named properties of an array are not
\* copied.
CloneDeep(n) ==
  CASE n.t = "obj" -> [n EXCEPT !.ch = [i \in DOMAIN n.ch |-> CloneDeep(n.ch[i])]]
    [] n.t = "arr" -> Arr([i \in DOMAIN n.el |-> CloneDeep(n.el[i])])
    [] OTHER -> n

\* Object.keys(x) for a value that is not null or undefined
ObjectKeys(n) ==
  CASE n.t = "obj" -> n.ks
    [] n.t = "arr" -> [i \in DOMAIN n.el |-> NumeralOf(i - 1)] \o n.ks
    [] n.t = "str" -> [i \in DOMAIN StrChars(n.v) |-> NumeralOf(i - 1)]
    [] OTHER -> <<>>

\* The start index splice computes from Number(step): the integer of a
\* numeral, -1 for "-1", and 0 for NaN (a step that is not numeric).
SpliceStart(k) == IF IsIndex(k) THEN IndexOf(k) ELSE IF k = "-1" THEN -1 ELSE 0

\* array.splice(start, 1)
Splice1FromEnd(el, start) == IF el = <<>> THEN el ELSE SubSeq(el, 1, Len(el) - 1)

Splice1(el, start) ==
  LET from == IF start < 0
              THEN (IF Len(el) + start < 0 THEN 0 ELSE Len(el) + start)
              ELSE start
  IN IF from >= Len(el) THEN el ELSE SeqRemoveAt(el, from + 1)

\* What a state updater returns: the new snapshot, or threw = TRUE when it
\* raised a TypeError.
Done(doc) == [threw |-> FALSE, doc |-> doc]

Threw(doc) == [threw |-> TRUE, doc |-> doc]

(***************************************************************************)
(* Mutation Engine: the state updaters of the five handlers                *)
(***************************************************************************)
\* handleSpecUpdate
HandleSpecUpdate(currentSpec, path, value) ==
  IF ~Truthy(currentSpec) THEN Done(Null)
  ELSE Done(Set(CloneDeep(currentSpec), path, value))

\* The array that handleAddItem leaves at an absent path: set() stores the
\* payload itself when it is an array (else a new one-element array), and
\* the push that follows appends the item to that same array.
CreatedCollection(item) ==
  IF item.t = "arr" THEN [item EXCEPT !.el = Append(item.el, Cyc)]
  ELSE Arr(<<item, item>>)

\* collection.push(item)
PushFront(el, item) == <<item>> \o el

Push(el, item) == Append(el, item)

\* collection[key] = value, for the one entry of a mapping payload
MergeReplacing(collection, key, value) == AssignProp(EmptyObj, key, value)

Merge(collection, key, value) == AssignProp(collection, key, value)

\* handleAddItem
HandleAddItem(currentSpec, path, item) ==
  IF ~Truthy(currentSpec) THEN Done(Null)
  ELSE LET newSpec == CloneDeep(currentSpec)
           found == Get(newSpec, path)
           created == Set(newSpec, path, IF item.t = "arr" THEN item ELSE Arr(<<item>>))
           key == IF ObjectKeys(item) = <<>> THEN "undefined" ELSE ObjectKeys(item)[1]
           value == IF ObjectKeys(item) = <<>> THEN Undef ELSE GetProp(item, key)
       IN IF found.t = "undef"
          THEN IF Get(created, path).t = "arr"
               THEN Done(ReplaceAt(created, path, CreatedCollection(item)))
               ELSE Done(created)
          ELSE IF found.t = "arr"
          THEN Done(ReplaceAt(newSpec, path, [found EXCEPT !.el = Push(found.el, item)]))
          ELSE IF found.t = "obj"
          THEN IF item.t \in {"null", "undef"} THEN Threw(currentSpec)
               ELSE Done(ReplaceAt(newSpec, path, Merge(found, key, value)))
          ELSE Done(newSpec)

\* The content of the snapshot handleAddItem was applied to, once the updater
\* has run.  Every write goes to the deep copy, but the payload is stored and
\* pushed by reference: when nothing exists at the path and the payload is an
\* array, set() stores that very array and collection.push(item) appends it
\* to itself.  `from` holds the path of the snapshot the caller took the
\* payload from (by reference), and is empty for a payload built by the
\* caller.
SnapshotAfterAddItem(currentSpec, path, item, from) ==
  IF /\ from # <<>>
     /\ Truthy(currentSpec)
     /\ item.t = "arr"
     /\ Get(CloneDeep(currentSpec), path).t = "undef"
     /\ Get(Set(CloneDeep(currentSpec), path, item), path).t = "arr"
  THEN ReplaceAt(currentSpec, from[1], CreatedCollection(item))
  ELSE currentSpec

\* handleRemoveItemByPath
HandleRemoveItemByPath(currentSpec, path) ==
  IF ~Truthy(currentSpec) THEN Done(Null)
  ELSE LET newSpec == CloneDeep(currentSpec)
           parentPath == SubSeq(path, 1, Len(path) - 1)
           itemKey == path[Len(path)]
           parent == Get(newSpec, parentPath)
       IN IF parent.t = "arr"
          THEN Done(ReplaceAt(newSpec, parentPath,
                              [parent EXCEPT !.el = Splice1(parent.el, SpliceStart(itemKey))]))
          ELSE IF parent.t = "obj"
          THEN Done(ReplaceAt(newSpec, parentPath, DeleteProp(parent, itemKey)))
          ELSE Done(newSpec)

\* handleRenameKey, for oldKey # newKey (the handler returns at once when
\* they are equal)
HandleRenameKey(currentSpec, path, oldKey, newKey) ==
  IF ~Truthy(currentSpec) THEN Done(Null)
  ELSE LET newSpec == CloneDeep(currentSpec)
           obj == Get(newSpec, path)
       IN IF IsObject(obj) /\ HasProp(obj, oldKey)
          THEN Done(ReplaceAt(newSpec, path,
                 AssignProp(DeleteProp(obj, oldKey), newKey, GetProp(obj, oldKey))))
          ELSE Done(newSpec)

\* requiredArray.indexOf(propertyKey) on an array: the first position
\* (from 0) of an element strictly equal to the key, or -1
ArrayIndexOf(el, propertyKey) ==
  IF \E i \in DOMAIN el : el[i] = Str(propertyKey)
  THEN (CHOOSE i \in DOMAIN el : /\ el[i] = Str(propertyKey)
                                /\ \A j \in 1..(i - 1) : el[j] # Str(propertyKey)) - 1
  ELSE -1

\* "...".indexOf(propertyKey) on a string (keys of the model are one
\* character long or the whole string)
StringIndexOf(s, propertyKey) ==
  IF s = propertyKey \/ propertyKey = "" THEN 0
  ELSE IF \E i \in DOMAIN StrChars(s) : StrChars(s)[i] = propertyKey
  THEN (CHOOSE i \in DOMAIN StrChars(s) :
          /\ StrChars(s)[i] = propertyKey
          /\ \A j \in 1..(i - 1) : StrChars(s)[j] # propertyKey) - 1
  ELSE -1

\* if (requiredArray.length === 0) delete schema.required
WriteRequiredKeepEmpty(schema, toggled) == AssignProp(schema, "required", toggled)

WriteRequired(schema, toggled) ==
  IF Len(toggled.el) = 0 THEN DeleteProp(schema, "required")
  ELSE AssignProp(schema, "required", toggled)

\* handleToggleRequired
HandleToggleRequired(currentSpec, schemaPath, propertyKey, makeRequired) ==
  IF ~Truthy(currentSpec) THEN Done(Null)
  ELSE LET newSpec == CloneDeep(currentSpec)
           schema == Get(newSpec, schemaPath)
           required == IF Truthy(GetProp(schema, "required"))
                       THEN GetProp(schema, "required") ELSE Arr(<<>>)
           keyIndex == IF required.t = "arr" THEN ArrayIndexOf(required.el, propertyKey)
                       ELSE StringIndexOf(required.v, propertyKey)
           toggled == IF makeRequired /\ keyIndex = -1
                      THEN [required EXCEPT !.el = Append(required.el, Str(propertyKey))]
                      ELSE IF ~makeRequired /\ keyIndex > -1
                      THEN [required EXCEPT !.el = Splice1(required.el, keyIndex)]
                      ELSE required
       IN IF ~IsObject(schema) THEN Done(newSpec)
          ELSE IF required.t \in {"num", "bool", "bigint", "obj"} THEN Threw(currentSpec)
          ELSE IF required.t = "str"
          THEN IF (makeRequired /\ keyIndex = -1) \/ (~makeRequired /\ keyIndex > -1)
               THEN Threw(currentSpec) ELSE Done(newSpec)
          ELSE Done(ReplaceAt(newSpec, schemaPath, WriteRequired(schema, toggled)))

(***************************************************************************)
(* Text.  A text is a sequence of tokens [k, s, n]:                        *)
(*   "{" "}" "[" "]" ":" "," "-"  punctuation ("-" is a block-sequence     *)
(*                                 dash)                                   *)
(*   "q"  a double-quoted string s      "sq" a single-quoted string s      *)
(*   "w"  a bare word s (number, true, false, null or a plain scalar)      *)
(*   "nl" a line break followed by n spaces of indentation                 *)
(*   "&"  an anchor, "*" an alias to it                                    *)
(***************************************************************************)
Tok(k, s, n) == [k |-> k, s |-> s, n |-> n]

P(k) == Tok(k, "", 0)

Q(s) == Tok("q", s, 0)

SQ(s) == Tok("sq", s, 0)

W(s) == Tok("w", s, 0)

NL(n) == Tok("nl", "", n)

RECURSIVE Flatten(_)
Flatten(ss) == IF ss = <<>> THEN <<>> ELSE Head(ss) \o Flatten(Tail(ss))

\* The result of a serializer: res is "ok", "undefined" (the value has no
\* representation and is left out) or "throw".
Ser(res, toks) == [res |-> res, toks |-> toks]

(***************************************************************************)
(* JSON.stringify(value, null, 2)                                          *)
(***************************************************************************)
RECURSIVE JsonStr(_, _)
JsonStr(n, ind) ==
  CASE n.t = "str" -> Ser("ok", <<Q(n.v)>>)
    [] n.t \in {"num", "bool"} -> Ser("ok", <<W(n.v)>>)
    [] n.t = "null" -> Ser("ok", <<W("null")>>)
    [] n.t = "undef" -> Ser("undefined", <<>>)
    [] n.t \in {"bigint", "cyc"} -> Ser("throw", <<>>)
    [] n.t = "arr" ->
         LET items == [i \in DOMAIN n.el |-> JsonStr(n.el[i], ind + 2)]
             piece(i) == (IF i > 1 THEN <<P(",")>> ELSE <<>>) \o <<NL(ind + 2)>>
                         \o (IF items[i].res = "undefined" THEN <<W("null")>>
                             ELSE items[i].toks)
         IN IF \E i \in DOMAIN items : items[i].res = "throw" THEN Ser("throw", <<>>)
            ELSE IF n.el = <<>> THEN Ser("ok", <<P("["), P("]")>>)
            ELSE Ser("ok", <<P("[")>> \o Flatten([i \in DOMAIN items |-> piece(i)])
                           \o <<NL(ind), P("]")>>)
    [] n.t = "obj" ->
         LET items == [i \in DOMAIN n.ch |-> JsonStr(n.ch[i], ind + 2)]
             kept(i) == items[i].res = "ok"
             piece(i) == IF ~kept(i) THEN <<>>
                         ELSE (IF \E j \in 1..(i - 1) : kept(j) THEN <<P(",")>> ELSE <<>>)
                              \o <<NL(ind + 2), Q(n.ks[i]), P(":")>> \o items[i].toks
         IN IF \E i \in DOMAIN items : items[i].res = "throw" THEN Ser("throw", <<>>)
            ELSE IF ~\E i \in DOMAIN items : kept(i) THEN Ser("ok", <<P("{"), P("}")>>)
            ELSE Ser("ok", <<P("{")>> \o Flatten([i \in DOMAIN items |-> piece(i)])
                           \o <<NL(ind), P("}")>>)

JsonStringify(value) == JsonStr(value, 0)

(***************************************************************************)
(* JSON.parse(text)                                                        *)
(***************************************************************************)
\* What a parser step returns: ok, the value, the position after it
Parsed(val, pos) == [ok |-> TRUE, val |-> val, pos |-> pos]

NoParse == [ok |-> FALSE, val |-> Undef, pos |-> 0]

KindAt(toks, p) == IF p \in DOMAIN toks THEN toks[p].k ELSE "eof"

\* The words JSON and YAML read as something other than a string
WordValue(s) ==
  IF IsIndex(s) \/ s = "-1" THEN Num(s)
  ELSE IF s \in {"true", "false"} THEN Bool(s)
  ELSE IF s = "null" THEN Null
  ELSE Undef

\* A parse counts when it used the whole text
Complete(toks, r) == IF r.ok /\ r.pos = Len(toks) + 1 THEN r ELSE NoParse

RECURSIVE JsonValue(_, _), JsonMembers(_, _, _), JsonMember(_, _, _, _),
          JsonElements(_, _, _), JsonElement(_, _, _)
JsonValue(toks, p) ==
  CASE KindAt(toks, p) = "q" -> Parsed(Str(toks[p].s), p + 1)
    [] KindAt(toks, p) = "w" ->
         IF WordValue(toks[p].s).t = "undef" THEN NoParse
         ELSE Parsed(WordValue(toks[p].s), p + 1)
    [] KindAt(toks, p) = "{" ->
         IF KindAt(toks, p + 1) = "}" THEN Parsed(EmptyObj, p + 2)
         ELSE JsonMembers(toks, p + 1, EmptyObj)
    [] KindAt(toks, p) = "[" ->
         IF KindAt(toks, p + 1) = "]" THEN Parsed(Arr(<<>>), p + 2)
         ELSE JsonElements(toks, p + 1, <<>>)
    [] OTHER -> NoParse

\* "key": value pairs up to the closing brace; a repeated key keeps its
\* first place and takes the last value
JsonMembers(toks, p, acc) ==
  IF KindAt(toks, p) = "q" /\ KindAt(toks, p + 1) = ":"
  THEN JsonMember(toks, acc, toks[p].s, JsonValue(toks, p + 2))
  ELSE NoParse

JsonMember(toks, acc, key, r) ==
  IF ~r.ok THEN NoParse
  ELSE IF KindAt(toks, r.pos) = ","
  THEN JsonMembers(toks, r.pos + 1, AssignProp(acc, key, r.val))
  ELSE IF KindAt(toks, r.pos) = "}" THEN Parsed(AssignProp(acc, key, r.val), r.pos + 1)
  ELSE NoParse

JsonElements(toks, p, acc) == JsonElement(toks, acc, JsonValue(toks, p))

JsonElement(toks, acc, r) ==
  IF ~r.ok THEN NoParse
  ELSE IF KindAt(toks, r.pos) = "," THEN JsonElements(toks, r.pos + 1, Append(acc, r.val))
  ELSE IF KindAt(toks, r.pos) = "]" THEN Parsed(Arr(Append(acc, r.val)), r.pos + 1)
  ELSE NoParse

IsNotBreak(tok) == tok.k # "nl"

JsonDocument(toks) == Complete(toks, JsonValue(toks, 1))

\* JSON.parse: line breaks are white space; the whole text is one value
JsonParse(text) == JsonDocument(SelectSeq(text, IsNotBreak))

(***************************************************************************)
(* yaml.dump(value) of js-yaml: block style, two spaces of indentation.    *)
(* `lenient` is the library's treatment of the value undefined: left out   *)
(* of a mapping and written as null in a sequence (js-yaml 4) or an        *)
(* exception (js-yaml 3).                                                  *)
(***************************************************************************)
\* A plain word that YAML reads as something other than that string
YamlWordValue(s) == IF s = "~" THEN Null ELSE WordValue(s)

\* Strings of the model that start with a YAML indicator character
IndicatorStrings == {"#/a", "#/s/a", "#/s/b", "#/s/c", "#/s/0", "#x"}

\* A string is dumped plain unless it would be read back as another value
YamlString(s) ==
  IF s = "" \/ YamlWordValue(s).t # "undef" \/ s \in IndicatorStrings
  THEN SQ(s) ELSE W(s)

RECURSIVE YamlNode(_, _, _, _)
YamlNode(n, ind, compact, lenient) ==
  CASE n.t = "str" -> Ser("ok", <<YamlString(n.v)>>)
    [] n.t \in {"num", "bool"} -> Ser("ok", <<W(n.v)>>)
    [] n.t = "null" -> Ser("ok", <<W("null")>>)
    [] n.t = "undef" -> IF lenient THEN Ser("undefined", <<>>) ELSE Ser("throw", <<>>)
    [] n.t = "bigint" -> Ser("throw", <<>>)
    [] n.t = "cyc" -> Ser("ok", <<P("*")>>)
    [] n.t = "arr" ->
         LET items == [i \in DOMAIN n.el |-> YamlNode(n.el[i], ind + 2, TRUE, lenient)]
             anchored == \E i \in DOMAIN n.el : n.el[i].t = "cyc"
             piece(i) == (IF compact /\ ~anchored /\ i = 1 THEN <<>> ELSE <<NL(ind)>>)
                         \o <<P("-")>>
                         \o (IF items[i].res = "undefined" THEN <<W("null")>>
                             ELSE items[i].toks)
         IN IF \E i \in DOMAIN items : items[i].res = "throw" THEN Ser("throw", <<>>)
            ELSE IF n.el = <<>> THEN Ser("ok", <<P("["), P("]")>>)
            ELSE Ser("ok", (IF anchored THEN <<P("&")>> ELSE <<>>)
                           \o Flatten([i \in DOMAIN items |-> piece(i)]))
    [] n.t = "obj" ->
         LET items == [i \in DOMAIN n.ch |-> YamlNode(n.ch[i], ind + 2, FALSE, lenient)]
             kept(i) == items[i].res = "ok"
             piece(i) == IF ~kept(i) THEN <<>>
                         ELSE (IF compact /\ ~\E j \in 1..(i - 1) : kept(j) THEN <<>>
                               ELSE <<NL(ind)>>)
                              \o <<YamlString(n.ks[i]), P(":")>> \o items[i].toks
         IN IF \E i \in DOMAIN items : items[i].res = "throw" THEN Ser("throw", <<>>)
            ELSE IF ~\E i \in DOMAIN items : kept(i) THEN Ser("ok", <<P("{"), P("}")>>)
            ELSE Ser("ok", Flatten([i \in DOMAIN items |-> piece(i)]))

\* yaml.dump: the node, then a final line break
EndLine(r) == IF r.res = "ok" THEN Ser("ok", Append(r.toks, NL(0))) ELSE r

YamlDump(value, lenient) == EndLine(YamlNode(value, 0, TRUE, lenient))

(***************************************************************************)
(* yaml.load(text) of js-yaml, for block mappings and sequences, flow      *)
(* collections, plain and quoted scalars, and an anchored sequence whose   *)
(* elements alias it.                                                      *)
(***************************************************************************)
\* Blank lines and the line breaks that end the text carry nothing
DropBlank(text) ==
  LET keep(i) == text[i].k # "nl" \/ (i < Len(text) /\ text[i + 1].k # "nl")
  IN Flatten([i \in DOMAIN text |-> IF keep(i) THEN <<text[i]>> ELSE <<>>])

\* Inside a flow collection a line break is white space
Skip(toks, p) == IF KindAt(toks, p) = "nl" THEN p + 1 ELSE p

YamlScalar(tok) ==
  IF tok.k = "w" /\ YamlWordValue(tok.s).t # "undef" THEN YamlWordValue(tok.s)
  ELSE Str(tok.s)

IsKeyAt(toks, p) == KindAt(toks, p) \in {"q", "sq", "w"} /\ KindAt(toks, p + 1) = ":"

RECURSIVE YamlFlow(_, _), FlowMap(_, _, _), FlowPair(_, _, _, _),
          FlowSeq(_, _, _), FlowItem(_, _, _)
YamlFlow(toks, p) ==
  CASE KindAt(toks, p) \in {"q", "sq", "w"} -> Parsed(YamlScalar(toks[p]), p + 1)
    [] KindAt(toks, p) = "{" -> FlowMap(toks, Skip(toks, p + 1), EmptyObj)
    [] KindAt(toks, p) = "[" -> FlowSeq(toks, Skip(toks, p + 1), <<>>)
    [] OTHER -> NoParse

\* { key: value, ... }: a key may stand without a value, a comma may end
\* the list, a key that repeats is an error
FlowMap(toks, p, acc) ==
  IF KindAt(toks, p) = "}" THEN Parsed(acc, p + 1)
  ELSE IF KindAt(toks, p) \notin {"q", "sq", "w"} \/ HasKey(acc.ks, toks[p].s) THEN NoParse
  ELSE IF KindAt(toks, Skip(toks, p + 1)) = ":"
  THEN FlowPair(toks, acc, toks[p].s,
                YamlFlow(toks, Skip(toks, Skip(toks, p + 1) + 1)))
  ELSE FlowPair(toks, acc, toks[p].s, Parsed(Null, Skip(toks, p + 1)))

FlowPair(toks, acc, key, r) ==
  IF ~r.ok THEN NoParse
  ELSE IF KindAt(toks, Skip(toks, r.pos)) = ","
  THEN FlowMap(toks, Skip(toks, Skip(toks, r.pos) + 1), AssignProp(acc, key, r.val))
  ELSE IF KindAt(toks, Skip(toks, r.pos)) = "}"
  THEN Parsed(AssignProp(acc, key, r.val), Skip(toks, r.pos) + 1)
  ELSE NoParse

FlowSeq(toks, p, acc) ==
  IF KindAt(toks, p) = "]" THEN Parsed(Arr(acc), p + 1)
  ELSE FlowItem(toks, acc, YamlFlow(toks, p))

FlowItem(toks, acc, r) ==
  IF ~r.ok THEN NoParse
  ELSE IF KindAt(toks, Skip(toks, r.pos)) = ","
  THEN FlowSeq(toks, Skip(toks, Skip(toks, r.pos) + 1), Append(acc, r.val))
  ELSE IF KindAt(toks, Skip(toks, r.pos)) = "]"
  THEN Parsed(Arr(Append(acc, r.val)), Skip(toks, r.pos) + 1)
  ELSE NoParse

RECURSIVE YamlBlock(_, _, _), YamlSeq(_, _, _, _, _), SeqItem(_, _, _, _, _),
          YamlMap(_, _, _, _), MapEntry(_, _, _, _, _)
\* The node whose first token is at p, in column col
YamlBlock(toks, p, col) ==
  CASE KindAt(toks, p) = "-" -> YamlSeq(toks, p, col, <<>>, FALSE)
    [] KindAt(toks, p) = "&" ->
         IF KindAt(toks, p + 1) = "nl" /\ KindAt(toks, p + 2) = "-" /\ toks[p + 1].n >= col
         THEN YamlSeq(toks, p + 2, toks[p + 1].n, <<>>, TRUE)
         ELSE NoParse
    [] IsKeyAt(toks, p) -> YamlMap(toks, p, col, EmptyObj)
    [] OTHER -> YamlFlow(toks, p)

\* The entries "- item" in column col, from the dash at p; an alias stands
\* for the anchored sequence it is an element of
YamlSeq(toks, p, col, acc, anchored) ==
  SeqItem(toks, col, acc, anchored,
          IF KindAt(toks, p + 1) = "*"
          THEN (IF anchored THEN Parsed(Cyc, p + 2) ELSE NoParse)
          ELSE IF KindAt(toks, p + 1) = "eof" THEN Parsed(Null, p + 1)
          ELSE IF KindAt(toks, p + 1) = "nl"
          THEN (IF toks[p + 1].n > col THEN YamlBlock(toks, p + 2, toks[p + 1].n)
                ELSE Parsed(Null, p + 1))
          ELSE YamlBlock(toks, p + 1, col + 2))

SeqItem(toks, col, acc, anchored, r) ==
  IF ~r.ok THEN NoParse
  ELSE IF KindAt(toks, r.pos) = "nl" /\ toks[r.pos].n = col /\ KindAt(toks, r.pos + 1) = "-"
  THEN YamlSeq(toks, r.pos + 1, col, Append(acc, r.val), anchored)
  ELSE Parsed(Arr(Append(acc, r.val)), r.pos)

\* The entries "key: value" in column col, from the key at p; a key that
\* repeats is an error
YamlMap(toks, p, col, acc) ==
  MapEntry(toks, col, acc, toks[p].s,
           IF KindAt(toks, p + 2) = "eof" THEN Parsed(Null, p + 2)
           ELSE IF KindAt(toks, p + 2) = "nl"
           THEN (IF toks[p + 2].n > col THEN YamlBlock(toks, p + 3, toks[p + 2].n)
                 ELSE IF toks[p + 2].n = col /\ KindAt(toks, p + 3) = "-"
                 THEN YamlSeq(toks, p + 3, col, <<>>, FALSE)
                 ELSE Parsed(Null, p + 2))
           ELSE IF KindAt(toks, p + 2) = "&" THEN YamlBlock(toks, p + 2, col)
           ELSE IF KindAt(toks, p + 2) = "-" \/ IsKeyAt(toks, p + 2) THEN NoParse
           ELSE YamlFlow(toks, p + 2))

MapEntry(toks, col, acc, key, r) ==
  IF ~r.ok \/ HasKey(acc.ks, key) THEN NoParse
  ELSE IF KindAt(toks, r.pos) = "nl" /\ toks[r.pos].n = col /\ IsKeyAt(toks, r.pos + 1)
  THEN YamlMap(toks, r.pos + 1, col, AssignProp(acc, key, r.val))
  ELSE Parsed(AssignProp(acc, key, r.val), r.pos)

YamlDocument(toks) ==
  IF toks = <<>> THEN Parsed(Undef, 1)
  ELSE IF KindAt(toks, 1) = "nl" THEN Complete(toks, YamlBlock(toks, 2, toks[1].n))
  ELSE Complete(toks, YamlBlock(toks, 1, 0))

\* yaml.load: undefined for an empty text; an exception (ok = FALSE) for a
\* text outside the syntax
YamlLoad(text) == YamlDocument(DropBlank(text))

(***************************************************************************)
(* Reference Resolver (utils.ts).  A reference string is read by its       *)
(* pieces: the characters '#' and '/' and the names between them.          *)
(***************************************************************************)
Pieces(ref) ==
  CASE ref = "" -> <<>>
    [] ref = "#/" -> <<"#", "/">>
    [] ref = "#a" -> <<"#", "a">>
    [] ref = "#/a" -> <<"#", "/", "a">>
    [] ref = "#/a/" -> <<"#", "/", "a", "/">>
    [] ref = "#/q" -> <<"#", "/", "q">>
    [] ref = "#/s" -> <<"#", "/", "s">>
    [] ref = "#/x" -> <<"#", "/", "x">>
    [] ref = "#/y" -> <<"#", "/", "y">>
    [] ref = "#/l/0" -> <<"#", "/", "l", "/", "0">>
    [] ref = "#/t/0" -> <<"#", "/", "t", "/", "0">>
    [] ref = "#/q/a" -> <<"#", "/", "q", "/", "a">>
    [] ref = "#/a/properties/p" -> <<"#", "/", "a", "/", "properties", "/", "p">>
    [] OTHER -> <<ref>>

\* ref.startsWith('#/')
StartsWithRoot(ref) ==
  Len(Pieces(ref)) >= 2 /\ Pieces(ref)[1] = "#" /\ Pieces(ref)[2] = "/"

\* string.split('/'): fields[i] is the split of the pieces from the i-th on
Split(pieces) ==
  LET fields[i \in 1..(Len(pieces) + 1)] ==
        IF i > Len(pieces) THEN <<"">>
        ELSE IF pieces[i] = "/" THEN <<"">> \o fields[i + 1]
        ELSE <<pieces[i] \o Head(fields[i + 1])>> \o Tail(fields[i + 1])
  IN fields[1]

\* ref.substring(2).split('/')
RefPath(ref) == Split(SubSeq(Pieces(ref), 3, Len(Pieces(ref))))

\* resolveRef
ResolveRef(spec, ref) ==
  IF ~StartsWithRoot(ref) THEN Null
  ELSE CHOOSE node \in {GetOr(spec, path, Null) : path \in {RefPath(ref)}} : TRUE

\* schemaPathFromRef
SchemaPathWithPrefix(ref) == Split(Pieces(ref))

SchemaPathFromRef(ref) == IF ~StartsWithRoot(ref) THEN <<>> ELSE RefPath(ref)

(***************************************************************************)
(* Sync Controller (App.tsx)                                               *)
(***************************************************************************)
VARIABLES
  specString,          \* useState: the raw text
  parsedSpec,          \* useState: the Document, Null when there is none
  parseError,          \* useState: Null or the error string
  specFormat,          \* useState: "json" or "yaml"
  isUpdatingFromView,  \* useRef: the suppression flag
  timers,              \* the pending invocations of the debounced parseSpec
  crashed,             \* a state updater raised: the application is gone
  lenientYaml,         \* which js-yaml the build has (see YamlDump)
  pre,                 \* history: the controller state before the last step
  last,                \* history: what the last step did
  nSteps,              \* history: the number of edits so far, of either kind
  view                 \* the SchemaView being rendered, or the last resolveRef call

vars == <<specString, parsedSpec, parseError, specFormat, isUpdatingFromView,
          timers, crashed, lenientYaml, pre, last, nSteps, view>>

\* Bound of the model: how many edits, raw-text or structural, a run makes
MaxSteps == 3

\* The message of the Error thrown for YAML that is not an object
NotAnObjectMessage == "Invalid YAML: content must be an object."

\* The message of a YAMLException
YamlExceptionMessage == "YAMLException: bad syntax"

FallbackMessage == "Invalid YAML or JSON format."

\* parseSpec after the flag test, given what JSON.parse and yaml.load
\* return: strict JSON first, then YAML, which must give an object;
\* `syntax` is the one that succeeded, or "fail".
OutcomeYamlFirst(j, y) ==
  IF y.ok /\ IsObject(y.val) THEN [syntax |-> "yaml", doc |-> y.val, error |-> Null]
  ELSE IF j.ok THEN [syntax |-> "json", doc |-> j.val, error |-> Null]
  ELSE [syntax |-> "fail", doc |-> Null, error |-> Str(FallbackMessage)]

OutcomeNoMessage(j, y) ==
  IF j.ok THEN [syntax |-> "json", doc |-> j.val, error |-> Null]
  ELSE IF y.ok /\ IsObject(y.val) THEN [syntax |-> "yaml", doc |-> y.val, error |-> Null]
  ELSE [syntax |-> "fail", doc |-> Null, error |-> Null]

Outcome(j, y) ==
  IF j.ok THEN [syntax |-> "json", doc |-> j.val, error |-> Null]
  ELSE IF y.ok /\ IsObject(y.val) THEN [syntax |-> "yaml", doc |-> y.val, error |-> Null]
  ELSE [syntax |-> "fail", doc |-> Null,
        error |-> Str(IF y.ok THEN NotAnObjectMessage ELSE YamlExceptionMessage)]

ParseOutcome(currentSpec) == Outcome(JsonParse(currentSpec), YamlLoad(currentSpec))

\* debounce(parseSpec, 500): a call cancels the pending invocation and
\* schedules one with the new argument
DebounceNoCancel(pending, call) == Append(pending, call)

Debounce(pending, call) == <<call>>

\* The controller state the effects work on; syntax is what parseSpec read
\* the text as and ser what the serialize effect did in this step ("none":
\* it did not run, or returned at once)
Ctl == [specString |-> specString, parsedSpec |-> parsedSpec,
        parseError |-> parseError, specFormat |-> specFormat,
        isUpdatingFromView |-> isUpdatingFromView, timers |-> timers,
        syntax |-> "none", ser |-> "none"]

\* setSpecString(text) and the effect on [specString]: a text that differs
\* is handed to the debounced parseSpec
SetSpecString(st, text, origin) ==
  IF text = st.specString THEN st
  ELSE [st EXCEPT !.specString = text,
                  !.timers = Debounce(st.timers, [arg |-> text, origin |-> origin])]

\* Object.is(old, new) fails: a new object is a new reference, a primitive
\* differs only by value
RefChanged(old, new) == IsObject(new) \/ new # old

\* How the Document is written in the Format tag
Serialize(doc, format, lenient) ==
  IF format = "yaml" THEN YamlDump(doc, lenient) ELSE JsonStringify(doc)

\* The effect on [parsedSpec, specFormat] once the flag is armed, given
\* what the serializer returned
PublishResetsText(st, r) ==
  IF r.res = "ok" THEN [SetSpecString(st, r.toks, "echo") EXCEPT !.ser = "ok"]
  ELSE [SetSpecString(st, <<>>, "echo") EXCEPT !.ser = "fail"]

Publish(st, r) ==
  IF r.res = "ok" THEN [SetSpecString(st, r.toks, "echo") EXCEPT !.ser = "ok"]
  ELSE [st EXCEPT !.ser = "fail"]

\* The effect on [parsedSpec, specFormat]
SerializeEffectUnarmed(st, lenient) ==
  IF ~Truthy(st.parsedSpec) THEN st
  ELSE Publish(st, Serialize(st.parsedSpec, st.specFormat, lenient))

SerializeEffect(st, lenient) ==
  IF ~Truthy(st.parsedSpec) THEN st
  ELSE Publish([st EXCEPT !.isUpdatingFromView = TRUE],
               Serialize(st.parsedSpec, st.specFormat, lenient))

\* The state setters of parseSpec, then the render and the effect
SetParsed(st, doc, error, format, syntax, lenient) ==
  IF RefChanged(st.parsedSpec, doc) \/ format # st.specFormat
  THEN SerializeEffect([st EXCEPT !.parsedSpec = doc, !.parseError = error,
                                  !.specFormat = format, !.syntax = syntax], lenient)
  ELSE [st EXCEPT !.parsedSpec = doc, !.parseError = error, !.syntax = syntax]

AcceptKeepsDocument(st, o, lenient) ==
  IF o.syntax = "fail" THEN [st EXCEPT !.parseError = o.error, !.syntax = "fail"]
  ELSE SetParsed(st, o.doc, o.error, o.syntax, o.syntax, lenient)

Accept(st, o, lenient) ==
  SetParsed(st, o.doc, o.error, IF o.syntax = "fail" THEN st.specFormat ELSE o.syntax,
            o.syntax, lenient)

\* parseSpec(currentSpec) with the render and effect that follow it
ParseSpecKeepsFlag(st, currentSpec, lenient) ==
  IF st.isUpdatingFromView THEN st
  ELSE Accept(st, ParseOutcome(currentSpec), lenient)

ParseSpec(st, currentSpec, lenient) ==
  IF st.isUpdatingFromView THEN [st EXCEPT !.isUpdatingFromView = FALSE]
  ELSE Accept(st, ParseOutcome(currentSpec), lenient)

\* setParsedSpec(updater) with the render and effect that follow it
MutateWithoutEffect(st, result, lenient) == [st EXCEPT !.parsedSpec = result.doc]

Mutate(st, result, lenient) ==
  IF RefChanged(st.parsedSpec, result.doc)
  THEN SerializeEffect([st EXCEPT !.parsedSpec = result.doc], lenient)
  ELSE st

(***************************************************************************)
(* Inputs of the model                                                     *)
(***************************************************************************)
\* defaultSpec.trim(), cut down to one nested mapping: a block YAML text
\* without a final line break
DefaultSpec == <<W("a"), P(":"), NL(2), W("b"), P(":"), W("1")>>

\* {"a":{"b":1}} typed on one line
JsonCompact ==
  <<P("{"), Q("a"), P(":"), P("{"), Q("b"), P(":"), W("1"), P("}"), P("}")>>

\* The two-space JSON text of {"a": {"b": 2}}, as a user types it into the
\* text the controller published
JsonCanonical == JsonStringify(Obj(<<"a">>, <<Obj(<<"b">>, <<Num("2")>>)>>)).toks

\* The block YAML text of {a: {b: 2}}, with its final line break
YamlCanonical == YamlDump(Obj(<<"a">>, <<Obj(<<"b">>, <<Num("2")>>)>>), TRUE).toks

\* Texts neither parser accepts as a Document
Unparsable == <<P("{")>>

\* A word: a YAML string, and no JSON
PlainWord == <<W("x")>>

\* A number: a JSON text, whose value is not an object
JsonScalar == <<W("1")>>

\* null: a JSON text, and a YAML text, whose value is null
JsonNull == <<W("null")>>

UserTexts ==
  {DefaultSpec, JsonCompact, JsonCanonical, YamlCanonical, Unparsable, PlainWord,
   JsonScalar, JsonNull}

\* <<path, value>> of the Update calls
UpdateCalls == {<<<<"a", "b">>, Num("2")>>, <<<<"a", "b">>, BigInt>>, <<<<"a", "c">>, Undef>>}

\* <<path, item>> of the AddItem calls
AddItemCalls ==
  {<<<<"l">>, Str("x")>>, <<<<"a">>, Obj(<<"k">>, <<Num("1")>>)>>, <<<<"a">>, Null>>}

RemoveItemCalls == {<<"a", "b">>, <<"l", "0">>}

\* <<path, oldKey, newKey>>
RenameKeyCalls == {<<<<"a">>, "b", "c">>}

\* <<schemaPath, propertyKey, makeRequired>>
ToggleRequiredCalls == {<<<<"a">>, "b", TRUE>>, <<<<"a">>, "b", FALSE>>}

(***************************************************************************)
(* The state machine                                                       *)
(***************************************************************************)
NoCall ==
  [path |-> <<>>, value |-> Undef, key |-> "", newKey |-> "", flag |-> FALSE,
   from |-> <<>>, ref |-> "", holder |-> <<>>]

\* No SchemaView is being rendered (a change of the controller's state
\* renders the form surface anew)
NoView ==
  [status |-> "idle", schema |-> Undef, path |-> <<>>, visitedRefs |-> <<>>,
   ref |-> "", result |-> Undef]

Step(op, arg, origin, syntax, ser, threw, call) ==
  [op |-> op, arg |-> arg, origin |-> origin, syntax |-> syntax, ser |-> ser,
   threw |-> threw, call |-> call]

Snapshot ==
  [specString |-> specString, parsedSpec |-> parsedSpec, parseError |-> parseError,
   specFormat |-> specFormat, isUpdatingFromView |-> isUpdatingFromView,
   timers |-> timers]

\* A step of the controller.  Rendering is synchronous: no handler or timer
\* runs while a SchemaView is being rendered, and the step renders the form
\* surface anew.
Commit(st, op, arg, origin, threw, call) ==
  /\ view.status # "rendering"
  /\ specString' = st.specString
  /\ parsedSpec' = st.parsedSpec
  /\ parseError' = st.parseError
  /\ specFormat' = st.specFormat
  /\ isUpdatingFromView' = st.isUpdatingFromView
  /\ timers' = st.timers
  /\ pre' = Snapshot
  /\ last' = Step(op, arg, origin, st.syntax, st.ser, threw, call)
  /\ view' = NoView

\* After mount: the two effects have run once; the first scheduled a parse
\* of the sample text, the second returned because there is no Document.
Init ==
  /\ specString = DefaultSpec
  /\ parsedSpec = Null
  /\ parseError = Null
  /\ specFormat = "yaml"
  /\ isUpdatingFromView = FALSE
  /\ timers = Debounce(<<>>, [arg |-> DefaultSpec, origin |-> "user"])
  /\ crashed = FALSE
  /\ lenientYaml \in BOOLEAN
  /\ pre = [specString |-> DefaultSpec, parsedSpec |-> Null, parseError |-> Null,
            specFormat |-> "yaml", isUpdatingFromView |-> FALSE, timers |-> <<>>]
  /\ last = Step("init", <<>>, "none", "none", "none", FALSE, NoCall)
  /\ nSteps = 0
  /\ view = NoView

\* Editor onChange, file load, the Sample button: setSpecString(text)
TextEdit ==
  \E text \in UserTexts :
    /\ ~crashed
    /\ nSteps < MaxSteps
    /\ text # specString
    /\ Commit(SetSpecString(Ctl, text, "user"), "edit", text, "user", FALSE, NoCall)
    /\ nSteps' = nSteps + 1
    /\ UNCHANGED <<crashed, lenientYaml>>

\* The debounce timer expires: parseSpec runs with the scheduled argument
DebounceFire ==
  \E i \in DOMAIN timers :
    /\ ~crashed
    /\ Commit(ParseSpec([Ctl EXCEPT !.timers = SeqRemoveAt(timers, i)],
                        timers[i].arg, lenientYaml),
              IF isUpdatingFromView THEN "skip" ELSE "parse",
              timers[i].arg, timers[i].origin, FALSE, NoCall)
    /\ UNCHANGED <<crashed, lenientYaml, nSteps>>

\* A handler called from the form surface, which is rendered only while
\* parsedSpec is truthy
StructuralEdit(op, result, call) ==
  /\ ~crashed
  /\ Truthy(parsedSpec)
  /\ nSteps < MaxSteps
  /\ nSteps' = nSteps + 1
  /\ IF result.threw
     THEN /\ crashed' = TRUE
          /\ Commit(Ctl, op, <<>>, "none", TRUE, call)
     ELSE /\ crashed' = FALSE
          /\ Commit(Mutate(Ctl, result, lenientYaml), op, <<>>, "none", FALSE, call)
  /\ UNCHANGED lenientYaml

SpecUpdate ==
  \E c \in UpdateCalls :
    StructuralEdit("update", HandleSpecUpdate(parsedSpec, c[1], c[2]),
                   [NoCall EXCEPT !.path = c[1], !.value = c[2]])

AddItem ==
  \E c \in AddItemCalls :
    StructuralEdit("add", HandleAddItem(parsedSpec, c[1], c[2]),
                   [NoCall EXCEPT !.path = c[1], !.value = c[2]])

RemoveItem ==
  \E path \in RemoveItemCalls :
    StructuralEdit("remove", HandleRemoveItemByPath(parsedSpec, path),
                   [NoCall EXCEPT !.path = path])

RenameKey ==
  \E c \in RenameKeyCalls :
    /\ c[2] # c[3]
    /\ StructuralEdit("rename", HandleRenameKey(parsedSpec, c[1], c[2], c[3]),
                      [NoCall EXCEPT !.path = c[1], !.key = c[2], !.newKey = c[3]])

ToggleRequired ==
  \E c \in ToggleRequiredCalls :
    StructuralEdit("toggle", HandleToggleRequired(parsedSpec, c[1], c[2], c[3]),
                   [NoCall EXCEPT !.path = c[1], !.key = c[2], !.flag = c[3]])

Next ==
  \/ TextEdit
  \/ DebounceFire
  \/ SpecUpdate
  \/ AddItem
  \/ RemoveItem
  \/ RenameKey
  \/ ToggleRequired

Spec == Init /\ [][Next]_vars

\* The controller driven from the text surface alone
NextTyping ==
  \/ TextEdit
  \/ DebounceFire

SpecTyping == Init /\ [][NextTyping]_vars

(***************************************************************************)
(* The Mutation Engine on loaded documents: a file is loaded right after   *)
(* mount, parsed, and the handlers are called on the Document with the     *)
(* arguments below.                                                        *)
(***************************************************************************)
\* How many handler calls a run of the engine makes
MaxEngineEdits == 2

\* A mapping m, a sequence l, and nothing at n
DocCollections ==
  Obj(<<"m", "l">>,
      <<Obj(<<"a", "b">>, <<Num("1"), Num("2")>>), Arr(<<Str("x"), Str("y"), Str("z")>>)>>)

\* Schemas whose `required` is a sequence (s), a sequence that names a key
\* twice (t), an empty sequence (u), a string (v), a number (n), null (z);
\* w has none
DocSchemas ==
  Obj(<<"s", "t", "u", "v", "n", "z", "w">>,
      <<Obj(<<"required">>, <<Arr(<<Str("k"), Str("j")>>)>>),
        Obj(<<"required">>, <<Arr(<<Str("k"), Str("k")>>)>>),
        Obj(<<"required">>, <<Arr(<<>>)>>),
        Obj(<<"required">>, <<Str("k")>>),
        Obj(<<"required">>, <<Num("1")>>),
        Obj(<<"required">>, <<Null>>),
        Obj(<<"type">>, <<Str("object")>>)>>)

\* A Document whose root is a sequence
DocSequence == Arr(<<Str("x"), Str("y")>>)

\* The files: two JSON texts and a YAML text
EngineTexts ==
  {JsonStringify(DocCollections).toks, JsonStringify(DocSchemas).toks,
   YamlDump(DocSequence, TRUE).toks}

\* <<path, item>>
EngineAddItemCalls ==
  {<<<<"n">>, Str("w")>>, <<<<"m", "q">>, Num("3")>>, <<<<>>, Str("w")>>,
   <<<<>>, Obj(<<"c">>, <<Num("3")>>)>>,
   <<<<"l">>, Str("w")>>, <<<<"l">>, Arr(<<Str("w")>>)>>,
   <<<<"m">>, Obj(<<"a">>, <<Num("3")>>)>>, <<<<"m">>, Obj(<<"c">>, <<Num("3")>>)>>}

\* <<path, the path of the Document whose node is passed as the item>>
EngineAddItemFromDocumentCalls ==
  {<<<<"n">>, <<"l">>>>, <<<<"n">>, <<"m">>>>, <<<<"l">>, <<"l">>>>}

EngineRemoveItemCalls ==
  {<<"m", "a">>, <<"m">>, <<"l", "0">>, <<"l", "1">>, <<"l", "2">>, <<"l", "5">>,
   <<"l", "-1">>, <<"l", "x">>, <<"0">>}

\* <<path, oldKey, newKey>>
EngineRenameKeyCalls ==
  {<<<<"m">>, "a", "c">>, <<<<"m">>, "a", "b">>, <<<<"m">>, "q", "c">>, <<<<>>, "m", "c">>}

\* <<schemaPath, propertyKey, makeRequired>>
EngineToggleRequiredCalls ==
  {<<p, "k", f>> : p \in {<<"s">>, <<"t">>, <<"u">>, <<"v">>, <<"n">>, <<"z">>, <<"w">>},
                   f \in BOOLEAN}
    \cup {<<p, "q", f>> : p \in {<<"s">>, <<"v">>}, f \in BOOLEAN}

InitEngine ==
  \E text \in EngineTexts :
    /\ specString = text
    /\ parsedSpec = Null
    /\ parseError = Null
    /\ specFormat = "yaml"
    /\ isUpdatingFromView = FALSE
    /\ timers = Debounce(<<>>, [arg |-> text, origin |-> "user"])
    /\ crashed = FALSE
    /\ lenientYaml \in BOOLEAN
    /\ pre = [specString |-> DefaultSpec, parsedSpec |-> Null, parseError |-> Null,
              specFormat |-> "yaml", isUpdatingFromView |-> FALSE,
              timers |-> Debounce(<<>>, [arg |-> DefaultSpec, origin |-> "user"])]
    /\ last = Step("edit", text, "user", "none", "none", FALSE, NoCall)
    /\ nSteps = 0
    /\ view = NoView

EngineAddItem ==
  \E c \in EngineAddItemCalls :
    /\ nSteps < MaxEngineEdits
    /\ StructuralEdit("add", HandleAddItem(parsedSpec, c[1], c[2]),
                      [NoCall EXCEPT !.path = c[1], !.value = c[2]])

\* The caller passes a node of the Document it was rendered with
EngineAddItemFromDocument ==
  \E c \in EngineAddItemFromDocumentCalls :
    /\ nSteps < MaxEngineEdits
    /\ Get(parsedSpec, c[2]).t # "undef"
    /\ StructuralEdit("add", HandleAddItem(parsedSpec, c[1], Get(parsedSpec, c[2])),
                      [NoCall EXCEPT !.path = c[1], !.value = Get(parsedSpec, c[2]),
                                     !.from = <<c[2]>>])

EngineRemoveItem ==
  \E path \in EngineRemoveItemCalls :
    /\ nSteps < MaxEngineEdits
    /\ StructuralEdit("remove", HandleRemoveItemByPath(parsedSpec, path),
                      [NoCall EXCEPT !.path = path])

EngineRenameKey ==
  \E c \in EngineRenameKeyCalls :
    /\ nSteps < MaxEngineEdits
    /\ c[2] # c[3]
    /\ StructuralEdit("rename", HandleRenameKey(parsedSpec, c[1], c[2], c[3]),
                      [NoCall EXCEPT !.path = c[1], !.key = c[2], !.newKey = c[3]])

EngineToggleRequired ==
  \E c \in EngineToggleRequiredCalls :
    /\ nSteps < MaxEngineEdits
    /\ StructuralEdit("toggle", HandleToggleRequired(parsedSpec, c[1], c[2], c[3]),
                      [NoCall EXCEPT !.path = c[1], !.key = c[2], !.flag = c[3]])

NextEngine ==
  \/ DebounceFire
  \/ EngineAddItem
  \/ EngineAddItemFromDocument
  \/ EngineRemoveItem
  \/ EngineRenameKey
  \/ EngineToggleRequired

SpecEngine == InitEngine /\ [][NextEngine]_vars

(***************************************************************************)
(* The Reference Resolver and the SchemaView that follows references, on a *)
(* loaded file.                                                            *)
(***************************************************************************)
\* Bound of the model: how many edits through a reference a run makes
MaxRefEdits == 1

Ref(ref) == Obj(<<"$ref">>, <<Str(ref)>>)

\* A file with a schema that refers to itself through a property (a), a
\* self-reference (s), a cycle of two (x, y), a reference to a (c), to an
\* absent node (d), without the prefix (e), through a scalar (g, t) and to
\* an element of a sequence (h, l)
DocRefs ==
  Obj(<<"a", "s", "x", "y", "c", "d", "e", "t", "g", "l", "h">>,
      <<Obj(<<"properties">>, <<Obj(<<"p">>, <<Ref("#/a")>>)>>),
        Ref("#/s"), Ref("#/y"), Ref("#/x"), Ref("#/a"), Ref("#/q"), Ref("a"),
        Str("xy"), Ref("#/t/0"),
        Arr(<<Obj(<<"type">>, <<Str("string")>>)>>), Ref("#/l/0")>>)

\* The reference strings resolveRef is called with
RefInputs ==
  {"", "a", "#a", "#/", "#/a", "#/a/", "#/q", "#/q/a", "#/s", "#/l/0", "#/t/0",
   "#/a/properties/p"}

\* Where the nodes that hold a reference are
RefHolders ==
  {<<"s">>, <<"x">>, <<"c">>, <<"d">>, <<"e">>, <<"g">>, <<"h">>,
   <<"a", "properties", "p">>}

\* The values written through a reference
RefEditValues == {Obj(<<"type">>, <<Str("string")>>), Undef}

InitResolve ==
  /\ specString = JsonStringify(DocRefs).toks
  /\ parsedSpec = Null
  /\ parseError = Null
  /\ specFormat = "yaml"
  /\ isUpdatingFromView = FALSE
  /\ timers = Debounce(<<>>, [arg |-> JsonStringify(DocRefs).toks, origin |-> "user"])
  /\ crashed = FALSE
  /\ lenientYaml \in BOOLEAN
  /\ pre = [specString |-> DefaultSpec, parsedSpec |-> Null, parseError |-> Null,
            specFormat |-> "yaml", isUpdatingFromView |-> FALSE,
            timers |-> Debounce(<<>>, [arg |-> DefaultSpec, origin |-> "user"])]
  /\ last = Step("edit", JsonStringify(DocRefs).toks, "user", "none", "none", FALSE, NoCall)
  /\ nSteps = 0
  /\ view = NoView

\* visitedRefs={[...visitedRefs, schema.$ref]}
VisitForgets(visitedRefs, ref) == visitedRefs

Visit(visitedRefs, ref) == Append(visitedRefs, ref)

\* visitedRefs.includes(schema.$ref)
Includes(visitedRefs, ref) == \E i \in DOMAIN visitedRefs : visitedRefs[i] = ref

\* The schemas SchemaView renders inside a schema that is not a reference,
\* with their paths: the truthy entries of `properties` for the type object
\* (the default), `items` for the type array
SchemaChildren(schema, path) ==
  LET type == IF GetProp(schema, "type").t = "undef" THEN Str("object")
              ELSE GetProp(schema, "type")
      properties == GetProp(schema, "properties")
      items == GetProp(schema, "items")
  IN IF type = Str("object") /\ properties.t = "obj"
     THEN {[schema |-> properties.ch[i], path |-> path \o <<"properties", properties.ks[i]>>] :
             i \in {j \in DOMAIN properties.ks : Truthy(properties.ch[j])}}
     ELSE IF type = Str("array") /\ Truthy(items)
     THEN {[schema |-> items, path |-> Append(path, "items")]}
     ELSE {}

\* A view component renders <SchemaView schema=... path=...> for a schema
\* of the Document
OpenSchema ==
  \E k \in {"a", "s", "x", "c", "d", "e", "t", "g", "h"} :
    /\ ~crashed
    /\ view.status # "rendering"
    /\ Truthy(GetProp(parsedSpec, k))
    /\ view' = [NoView EXCEPT !.status = "rendering", !.schema = GetProp(parsedSpec, k),
                               !.path = <<k>>]
    /\ UNCHANGED <<specString, parsedSpec, parseError, specFormat, isUpdatingFromView,
                   timers, crashed, lenientYaml, pre, last, nSteps>>

\* What SchemaView renders for a schema, given its $ref entry and what
\* resolveRef returned for it
Rendered(v, ref, resolvedSchema) ==
  IF ~IsObject(v.schema) THEN {[v EXCEPT !.status = "raised"]}
  ELSE IF HasProp(v.schema, "$ref")
  THEN IF ref.t = "str" /\ Includes(v.visitedRefs, ref.v)
       THEN {[v EXCEPT !.status = "circular", !.ref = ref.v]}
       ELSE IF ref.t # "str" THEN {[v EXCEPT !.status = "raised"]}
       ELSE IF ~Truthy(resolvedSchema)
       THEN {[v EXCEPT !.status = "invalid", !.ref = ref.v, !.result = resolvedSchema]}
       ELSE {[v EXCEPT !.schema = resolvedSchema, !.path = SchemaPathFromRef(ref.v),
                       !.visitedRefs = Visit(v.visitedRefs, ref.v), !.ref = ref.v,
                       !.result = resolvedSchema]}
  ELSE IF SchemaChildren(v.schema, v.path) = {}
  THEN {[v EXCEPT !.status = "shown"]}
  ELSE {[v EXCEPT !.schema = c.schema, !.path = c.path] :
          c \in SchemaChildren(v.schema, v.path)}

\* One call of SchemaView: ends in a terminal display or renders a
\* SchemaView inside
SchemaView(v, spec) ==
  UNION {Rendered(v, ref, resolvedSchema) :
           ref \in {GetProp(v.schema, "$ref")},
           resolvedSchema \in {ResolveRef(spec, GetProp(v.schema, "$ref").v)}}

RenderSchema ==
  /\ view.status = "rendering"
  /\ view' \in SchemaView(view, parsedSpec)
  /\ UNCHANGED <<specString, parsedSpec, parseError, specFormat, isUpdatingFromView,
                 timers, crashed, lenientYaml, pre, last, nSteps>>

\* resolveRef(spec, ref) called on its own
Resolve ==
  \E ref \in RefInputs :
    /\ ~crashed
    /\ Truthy(parsedSpec)
    /\ view.status # "rendering"
    /\ view' = [NoView EXCEPT !.status = "resolved", !.ref = ref,
                               !.result = ResolveRef(parsedSpec, ref)]
    /\ UNCHANGED <<specString, parsedSpec, parseError, specFormat, isUpdatingFromView,
                   timers, crashed, lenientYaml, pre, last, nSteps>>

\* onUpdate(schemaPathFromRef(ref), value) for the reference held at holder
EditThroughRef ==
  \E holder \in RefHolders, value \in RefEditValues :
    /\ nSteps < MaxRefEdits
    /\ GetProp(Get(parsedSpec, holder), "$ref").t = "str"
    /\ StructuralEdit("update",
                      HandleSpecUpdate(parsedSpec,
                        SchemaPathFromRef(GetProp(Get(parsedSpec, holder), "$ref").v), value),
                      [NoCall EXCEPT
                         !.path = SchemaPathFromRef(GetProp(Get(parsedSpec, holder), "$ref").v),
                         !.value = value,
                         !.ref = GetProp(Get(parsedSpec, holder), "$ref").v,
                         !.holder = holder])

NextResolve ==
  \/ DebounceFire
  \/ OpenSchema
  \/ RenderSchema
  \/ Resolve
  \/ EditThroughRef

SpecResolve == InitResolve /\ [][NextResolve]_vars

\* Rendering goes on until the SchemaView has nothing left to render
SpecResolveFair == SpecResolve /\ WF_vars(RenderSchema)

(***************************************************************************)
(* Properties of the Sync Controller.  `pre` is the controller before the  *)
(* last step and `last` what that step did, so that a property of one step *)
(* is an invariant.                                                        *)
(***************************************************************************)
Edits == {"update", "add", "remove", "rename", "toggle"}

Fires == {"parse", "skip"}

\* The last step was a parse attempt that failed both parsers
ParseFailed == last.op = "parse" /\ last.syntax = "fail"

\* What the handler of the last structural edit returns for doc
EditResult(doc, op, call) ==
  CASE op = "update" -> HandleSpecUpdate(doc, call.path, call.value)
    [] op = "add" -> HandleAddItem(doc, call.path, call.value)
    [] op = "remove" -> HandleRemoveItemByPath(doc, call.path)
    [] op = "rename" -> HandleRenameKey(doc, call.path, call.key, call.newKey)
    [] op = "toggle" -> HandleToggleRequired(doc, call.path, call.key, call.flag)
    [] OTHER -> Done(doc)

C2_UserTextNeverSkipped == last.op = "skip" => last.origin = "echo"

\* C3: idle agreement.  In every state in which no deferred parse is
\* pending, no parse error is surfaced and a Document is present, parsing
\* the current Text yields the current Document.  It is checked under
\* SpecTyping: it fails without any structural edit.
C3_IdleAgreement ==
  (timers = <<>> /\ parseError = Null /\ parsedSpec # Null)
    => ParseOutcome(specString).doc = parsedSpec

\* C4, as the claim states it: after any structural edit on a present
\* Document the published Text is the serialization of the new Document in
\* the current Format tag, and the Format tag is the same as before.
C4_TextIsSerialization ==
  last.op \in Edits =>
    /\ specFormat = pre.specFormat
    /\ Serialize(parsedSpec, specFormat, lenientYaml) = Ser("ok", specString)

\* C4, amended: after any structural edit on a present Document the Format
\* tag is the same as before; the Text is the serialization of the new
\* Document when the edit returned an object or array and serializing it
\* succeeded, and is left as it was when the edit raised, the Document is a
\* scalar, or serializing failed.
C4_TextFollowsEdit ==
  last.op \in Edits =>
    /\ specFormat = pre.specFormat
    /\ specString =
         IF /\ ~last.threw
            /\ IsObject(parsedSpec)
            /\ Serialize(parsedSpec, specFormat, lenientYaml).res = "ok"
         THEN Serialize(parsedSpec, specFormat, lenientYaml).toks
         ELSE pre.specString

C4_Witness ==
  /\ last.op \in Edits
  /\ last.ser = "ok"
  /\ parsedSpec # pre.parsedSpec
  /\ specString # pre.specString

\* C5: the text-change notification caused by the controller's own
\* serialization never results in a parse: when its debounced callback
\* fires, Document, Format tag and error are unchanged and the suppression
\* flag is cleared.
C5_EchoIsSkipped ==
  (last.op \in Fires /\ last.origin = "echo") =>
    /\ last.op = "skip"
    /\ parsedSpec = pre.parsedSpec
    /\ specFormat = pre.specFormat
    /\ parseError = pre.parseError
    /\ specString = pre.specString
    /\ ~isUpdatingFromView

C5_Witness ==
  /\ last.op = "skip"
  /\ last.origin = "echo"
  /\ pre.isUpdatingFromView
  /\ Truthy(parsedSpec)

\* C6: raw-text edits are coalesced.  At most one deferred parse is pending
\* at any time, each new text change replaces the pending one, and when the
\* debounce fires the parse attempt receives the most recent Text: a text
\* that was replaced is never parsed.
C6_LastTextWins ==
  /\ Len(timers) <= 1
  /\ timers # <<>> => timers[1].arg = specString
  /\ last.op \in Fires => last.arg = pre.specString /\ Len(pre.timers) = 1

C6_Witness ==
  /\ last.op = "edit"
  /\ Len(pre.timers) = 1
  /\ pre.timers[1].origin = "user"
  /\ pre.timers[1].arg # last.arg
  /\ timers = <<[arg |-> last.arg, origin |-> "user"]>>

\* C7: a parse attempt tries strict JSON first and YAML only after JSON has
\* failed; after a successful attempt the Format tag equals the syntax that
\* succeeded, so text the JSON parser accepts is always tagged JSON and the
\* tag is YAML only when JSON parsing failed.
C7_JsonFirst ==
  last.op = "parse" =>
    /\ JsonParse(last.arg).ok => last.syntax = "json" /\ parsedSpec = JsonParse(last.arg).val
    /\ last.syntax = "yaml" =>
         ~JsonParse(last.arg).ok /\ parsedSpec = YamlLoad(last.arg).val
    /\ last.syntax # "fail" => specFormat = last.syntax

\* A text both parsers accept as an object was parsed and tagged JSON
C7_Witness ==
  /\ last.op = "parse"
  /\ last.syntax = "json"
  /\ YamlLoad(last.arg).ok
  /\ IsObject(YamlLoad(last.arg).val)
  /\ pre.specFormat = "yaml"

\* C8: every parse attempt that fails both parsers surfaces a non-empty
\* error string, and the surfaced error is cleared by the next successful
\* parse.
C8_ErrorSurfacedAndCleared ==
  last.op = "parse" =>
    IF last.syntax = "fail" THEN parseError.t = "str" /\ parseError.v # ""
    ELSE parseError = Null

C8_Witness ==
  /\ last.op = "parse"
  /\ last.syntax # "fail"
  /\ pre.parseError # Null
  /\ parseError = Null

\* C9: if serializing the Document fails, the Text keeps the value it had
\* before the attempt and the Document is unchanged: it is the Document the
\* step installed.
C9_FailedSerializationKeepsText ==
  last.ser = "fail" =>
    /\ specString = pre.specString
    /\ parsedSpec = IF last.op = "parse" THEN ParseOutcome(last.arg).doc
                    ELSE EditResult(pre.parsedSpec, last.op, last.call).doc

C9_Witness ==
  /\ last.ser = "fail"
  /\ last.op = "update"
  /\ parsedSpec # pre.parsedSpec
  /\ specString = pre.specString

\* C10: for every present Document, every path of one or more steps and
\* every value v, get(Update(doc, path, v), path) = v, with intermediate
\* containers created where they are absent.
C10_UpdateThenGet ==
  last.op = "update" => Get(parsedSpec, last.call.path) = last.call.value

(***************************************************************************)
(* Properties of the Mutation Engine, stated of the last handler call:     *)
(* `pre.parsedSpec` is the Document it was applied to, `last.call` its     *)
(* arguments and `parsedSpec` the Document it returned.                    *)
(***************************************************************************)
\* The last step was a call of handler op that returned
Returned(op) == last.op = op /\ ~last.threw

\* What was at the path of the last call before it, and what is there now
NodeBefore == Get(pre.parsedSpec, last.call.path)

NodeAfter == Get(parsedSpec, last.call.path)

RECURSIVE Addresses(_, _)
\* The path leads through the Document by keys of mappings and indices of
\* sequences
Addresses(n, path) ==
  IF path = <<>> THEN TRUE
  ELSE CASE n.t = "obj" ->
              HasKey(n.ks, Head(path)) /\ Addresses(GetProp(n, Head(path)), Tail(path))
         [] n.t = "arr" ->
              /\ IsIndex(Head(path))
              /\ IndexOf(Head(path)) < Len(n.el)
              /\ Addresses(GetProp(n, Head(path)), Tail(path))
         [] OTHER -> FALSE

RECURSIVE IsTree(_)
\* A Document as the parsers produce it and the serializers write it: a tree
\* of mappings, sequences and scalars, in which no sequence carries a named
\* property
IsTree(n) ==
  CASE n.t = "obj" -> \A i \in DOMAIN n.ch : IsTree(n.ch[i])
    [] n.t = "arr" -> n.ks = <<>> /\ \A i \in DOMAIN n.el : IsTree(n.el[i])
    [] OTHER -> TRUE

RECURSIVE NodeAt(_, _)
\* The node a path leads to, the root for the empty path
NodeAt(n, path) ==
  IF path = <<>> THEN n ELSE NodeAt(GetProp(n, Head(path)), Tail(path))

\* The parent path and the last step of the path of the last call
ParentPath == SubSeq(last.call.path, 1, Len(last.call.path) - 1)
LastStep == last.call.path[Len(last.call.path)]
ParentBefore == NodeAt(pre.parsedSpec, ParentPath)
ParentAfter == NodeAt(parsedSpec, ParentPath)

\* The path of the last call addressed a node of kind t: get(doc, path)
\* returned it (for the empty path get returns undefined)
Addressed(t) == Addresses(pre.parsedSpec, last.call.path) /\ NodeBefore.t = t

\* C11: AddItem(path, item) on a Document in which nothing exists at path,
\* followed by get(path), returns a sequence of exactly one element, which
\* is the added item.  Stated of Documents whose root is a mapping.
C11_AddAtAbsentPath ==
  (Returned("add") /\ pre.parsedSpec.t = "obj" /\ NodeBefore.t = "undef")
    => NodeAfter = Arr(<<last.call.value>>)

KeySet(n) == {ObjectKeys(n)[i] : i \in 1..Len(ObjectKeys(n))}

\* The payload {k: v} of the last call
PayloadKey == ObjectKeys(last.call.value)[1]
PayloadValue == GetProp(last.call.value, PayloadKey)
SingleEntryPayload == last.call.value.t = "obj" /\ Len(ObjectKeys(last.call.value)) = 1

C13_WitnessNewKey ==
  /\ Returned("add")
  /\ Addressed("obj")
  /\ last.call.value = Obj(<<"c">>, <<Num("3")>>)
  /\ NodeBefore = Obj(<<"a", "b">>, <<Num("1"), Num("2")>>)
  /\ NodeAfter = Obj(<<"a", "b", "c">>, <<Num("1"), Num("2"), Num("3")>>)

\* C14: for every path that addresses an existing key of a mapping in the
\* Document, including a key of the root mapping (a path of length 1),
\* get(RemoveItem(doc, path), path) is not-found.
C14_RemoveThenGet ==
  (/\ Returned("remove")
   /\ Addresses(pre.parsedSpec, last.call.path)
   /\ ParentBefore.t = "obj")
    => NodeAfter.t = "undef"

\* The sequence the parent path of the last call addressed, before and after
SequenceBefore == Get(pre.parsedSpec, ParentPath)
SequenceAfter == Get(parsedSpec, ParentPath)

C16_RemoveOnlyAtIndex ==
  (/\ Returned("remove")
   /\ SequenceBefore.t = "arr"
   /\ Addresses(pre.parsedSpec, ParentPath)
   /\ ~(IsIndex(LastStep) /\ IndexOf(LastStep) < Len(SequenceBefore.el)))
    => SequenceAfter = SequenceBefore

\* The mapping the path of the last call leads to (the root for the empty
\* path), before and after
MappingBefore == NodeAt(pre.parsedSpec, last.call.path)
MappingAfter == NodeAt(parsedSpec, last.call.path)

\* C17: RenameKey(p, a, b) with a != b, where p addresses a mapping of the
\* Document (including the root mapping, p empty) that has key a, yields a
\* Document in which get(p ++ [b]) is the value formerly at p ++ [a],
\* get(p ++ [a]) is not-found, and every other key of that mapping is
\* unchanged.
C17_RenameMoves ==
  (/\ Returned("rename")
   /\ last.call.key # last.call.newKey
   /\ Addresses(pre.parsedSpec, last.call.path)
   /\ MappingBefore.t = "obj"
   /\ HasProp(MappingBefore, last.call.key))
    => /\ GetProp(MappingAfter, last.call.newKey) = GetProp(MappingBefore, last.call.key)
       /\ ~HasProp(MappingAfter, last.call.key)
       /\ \A k \in KeySet(MappingBefore) \ {last.call.key, last.call.newKey} :
            GetProp(MappingAfter, k) = GetProp(MappingBefore, k)

\* The last call applied once more to the Document it produced
ToggledAgain ==
  HandleToggleRequired(parsedSpec, last.call.path, last.call.key, last.call.flag)

\* C18: ToggleRequired is idempotent: for every Document, schema path p, key
\* k and flag m, applying ToggleRequired(p, k, m) twice yields the same
\* Document as applying it once.
C18_ToggleIdempotent ==
  Returned("toggle") => (~ToggledAgain.threw /\ ToggledAgain.doc = parsedSpec)

\* The Required-set field of the schema node of the last call
RequiredBefore == GetProp(NodeBefore, "required")
RequiredAfter == GetProp(NodeAfter, "required")
AbsentOrNonEmpty(r) == r.t = "undef" \/ (r.t = "arr" /\ Len(r.el) > 0)

IsMember(r) == r.t = "arr" /\ \E i \in DOMAIN r.el : r.el[i] = Str(last.call.key)

\* C20: after ToggleRequired(p, k, false) on a Document whose node at p is a
\* mapping, k is not a member of the Required-set at p, whatever the
\* Required-set contained before (including a set that came from parsed
\* text).
C20_RemovedKeyIsNotMember ==
  (Returned("toggle") /\ ~last.call.flag /\ NodeBefore.t = "obj")
    => ~IsMember(RequiredAfter)

\* The content of the snapshot the last operation was applied to, after the
\* operation.  Only handleAddItem writes through its payload.
SnapshotAfter ==
  IF last.op = "add"
  THEN SnapshotAfterAddItem(pre.parsedSpec, last.call.path, last.call.value, last.call.from)
  ELSE pre.parsedSpec

\* C21: a Document snapshot produced earlier is never modified by a later
\* operation: each operation works on a deep copy, so the content of the
\* snapshot it was applied to is the same before and after, whatever payload
\* is passed.
C21_SnapshotNeverModified ==
  (last.op \in {"update", "add", "remove", "rename", "toggle"})
    => SnapshotAfter = pre.parsedSpec

\* C22: for every present Document, every path (including the empty path,
\* paths through scalars and paths to absent nodes) and every payload, each
\* of Update, AddItem, RemoveItem, RenameKey and ToggleRequired completes
\* without raising an error and returns a Document.
C22_EditsNeverRaise ==
  (last.op \in {"update", "add", "remove", "rename", "toggle"}) => ~last.threw

(***************************************************************************)
(* Properties of the Reference Resolver                                    *)
(***************************************************************************)
\* C23: resolve(doc, ref) returns the node reached from the root by the
\* '/'-separated steps that follow the '#/' prefix, and NotFound (null,
\* never an exception) when the ref lacks the '#/' prefix or a step is
\* absent; resolving never changes the Document.  A key whose value is
\* undefined counts as absent.
C23_ResolveReturnsNode ==
  (view.status = "resolved") =>
    view.result = IF /\ StartsWithRoot(view.ref)
                     /\ Addresses(parsedSpec, RefPath(view.ref))
                     /\ NodeAt(parsedSpec, RefPath(view.ref)).t # "undef"
                  THEN NodeAt(parsedSpec, RefPath(view.ref))
                  ELSE Null

\* NotFound: resolveRef answers null where get answers undefined
OrNotFound(n) == IF n.t = "undef" THEN Null ELSE n

\* The last step was an Update through the reference last.call.ref
EditedThroughRef == Returned("update") /\ last.call.holder # <<>>

\* Neither path is a prefix of the other
Diverge(p, q) ==
  \E i \in 1..(IF Len(p) < Len(q) THEN Len(p) ELSE Len(q)) : p[i] # q[i]

\* get(doc, toEditPath(r)) equals resolve(doc, r)
EditPathAgreesWithResolve ==
  (view.status = "resolved") =>
    OrNotFound(Get(parsedSpec, SchemaPathFromRef(view.ref))) = view.result

\* C24 as stated: for every Document and every reference r,
\* get(doc, toEditPath(r)) equals resolve(doc, r), so that for every value v,
\* resolve(Update(doc, toEditPath(r), v), r) = v while the node holding the
\* reference is unchanged.
C24_EditThroughRefReachesTarget ==
  /\ EditPathAgreesWithResolve
  /\ EditedThroughRef =>
       /\ ResolveRef(parsedSpec, last.call.ref) = last.call.value
       /\ Get(parsedSpec, last.call.holder) = Get(pre.parsedSpec, last.call.holder)

\* C24, amended: get(doc, toEditPath(r)) and resolve(doc, r) are the same
\* node or both not-found.  For a reference r with the '#/' prefix,
\* resolve(Update(doc, toEditPath(r), v), r) is v (NotFound for v undefined)
\* and a node holding the reference on another branch than the referenced
\* node is unchanged; for a reference without the prefix the Update changes
\* nothing.
C24_EditThroughRootedRef ==
  /\ EditPathAgreesWithResolve
  /\ EditedThroughRef =>
       IF StartsWithRoot(last.call.ref)
       THEN /\ ResolveRef(parsedSpec, last.call.ref) = OrNotFound(last.call.value)
            /\ Diverge(last.call.holder, last.call.path) =>
                 Get(parsedSpec, last.call.holder) = Get(pre.parsedSpec, last.call.holder)
       ELSE parsedSpec = pre.parsedSpec

C24_Witness ==
  /\ EditedThroughRef
  /\ last.call.ref = "#/a"
  /\ last.call.holder = <<"c">>
  /\ last.call.value = Obj(<<"type">>, <<Str("string")>>)
  /\ ResolveRef(parsedSpec, "#/a") = Obj(<<"type">>, <<Str("string")>>)
  /\ Get(parsedSpec, <<"c">>) = Ref("#/a")

\* A SchemaView that has nothing left to render: the schema is shown, or a
\* Circular Reference or an Invalid Reference is displayed, or the render
\* raised
Terminal == view.status \in {"shown", "circular", "invalid", "raised"}

NoDuplicates(s) == \A i, j \in DOMAIN s : s[i] = s[j] => i = j

\* C25: resolving a schema through references terminates on every finite
\* Document, including reference cycles of any length (a self-reference,
\* A -> B -> A): a reference string already on the current resolution chain
\* yields a terminal Circular result, distinct from NotFound, and is not
\* resolved again.
C25_ResolutionTerminates ==
  /\ [](NoDuplicates(view.visitedRefs))
  /\ []((view.status = "rendering" /\ view.schema.t = "obj"
         /\ GetProp(view.schema, "$ref").t = "str"
         /\ Includes(view.visitedRefs, GetProp(view.schema, "$ref").v))
          => (\A v \in SchemaView(view, parsedSpec) : v.status = "circular"))
  /\ (view.status = "rendering") ~> Terminal

C25_Witness ==
  /\ view.status = "circular"
  /\ view.visitedRefs = <<"#/y", "#/x">>
  /\ view.ref = "#/y"

C25_WitnessSelfReference ==
  /\ view.status = "circular"
  /\ view.visitedRefs = <<"#/s">>
  /\ view.ref = "#/s"

(***************************************************************************)
(* Properties of the Sync Controller over runs of steps                    *)
(***************************************************************************)
\* The controller is at rest: no deferred parse is pending
Quiescent(pending) == pending = <<>>

\* The one deferred parse the serialize effect leaves behind: of the text
\* it published, to be consumed by the armed flag
EchoPending ==
  /\ timers = <<[arg |-> specString, origin |-> "echo"]>>
  /\ isUpdatingFromView

\* C26: after any single user action (one burst of text edits or one
\* structural edit) followed by no further input, the controller performs
\* at most one parse and one serialization per Document change and then
\* becomes quiescent with no deferred parse pending: there is no unbounded
\* tree -> text -> tree cycle.  Stated on the steps: at most one deferred
\* parse is ever pending; a deferred parse that fires leaves one behind only
\* when it parsed and serialized, and then it is the echo of the published
\* text with the flag armed; the deferred parse that fires next after a
\* fire, or after a structural edit made at rest, is skipped and leaves the
\* controller quiescent.
C26_NoRoundTripCycle ==
  [][/\ Len(timers') <= 1
     /\ last'.op \in Fires =>
          /\ ~Quiescent(timers') => (last'.op = "parse" /\ last'.ser = "ok" /\ EchoPending')
          /\ (last.op \in Fires \/ (last.op \in Edits /\ Quiescent(pre.timers)))
               => (last'.op = "skip" /\ Quiescent(timers'))]_vars

\* A text edit was parsed and serialized, and the echo of the serialization
\* has been skipped: the controller is at rest after one parse
C26_Witness ==
  /\ last.op = "skip"
  /\ last.origin = "echo"
  /\ Quiescent(timers)
  /\ pre.isUpdatingFromView
  /\ ~isUpdatingFromView
  /\ Truthy(parsedSpec)
  /\ ParseOutcome(specString).doc = parsedSpec

\* C27: whenever the suppression flag is armed, a text-change notification
\* produced by the controller's own serialization is pending: the flag is
\* not left armed when the serialized text is identical to the current Text
\* (so no text change occurs) or when serialization fails.
C27_ArmedFlagHasEchoPending ==
  isUpdatingFromView => \E i \in DOMAIN timers : timers[i].origin = "echo"

\* C28: every Document installed by a successful parse (through either
\* parser) is a mapping, never a scalar or a sequence.
C28_ParsedDocumentIsMapping ==
  (last.op = "parse" /\ last.syntax \in {"json", "yaml"}) => parsedSpec.t = "obj"

\* C29: after every completed parse attempt exactly one of the following
\* holds: a Document is present and no error is surfaced, or the attempt
\* produced no Document and a non-empty error is surfaced; no text leaves
\* the controller with neither a Document nor an error.
C29_DocumentOrError ==
  last.op = "parse" =>
    \/ parsedSpec # Null /\ parseError = Null
    \/ parsedSpec = Null /\ parseError.t = "str" /\ parseError.v # ""

\* The last step was a structural edit made while a user text edit was
\* waiting for its debounced parse
EditOverWaitingText ==
  /\ last.op \in Edits
  /\ \E i \in DOMAIN pre.timers : pre.timers[i].origin = "user"

\* C30: if a structural edit is applied while a user text edit is still
\* waiting for its debounced parse, the mutated Document wins: Text is
\* overwritten with the serialization of the mutated Document, the waiting
\* user text is never parsed (whatever is still pending meets the armed
\* flag), and at quiescence parsing Text yields the mutated Document.
C30_MutatedDocumentWins ==
  EditOverWaitingText =>
    /\ Serialize(parsedSpec, specFormat, lenientYaml) = Ser("ok", specString)
    /\ Quiescent(timers) \/ isUpdatingFromView
    /\ ParseOutcome(specString).doc = parsedSpec

====
